---- MODULE Spec2Model ----
(***************************************************************************)
(* Model of query_serving.py: a ternary search tree (QueryServer) whose    *)
(* nodes carry a bounded list of (score, word) completions kept with       *)
(* heapq, with prefix search, completion retrieval and a textual           *)
(* serialization.                                                          *)
(*                                                                         *)
(* Strings are sequences of character codes (Python compares strings by    *)
(* code point).  Nodes live in an arena: a sequence of node records, the   *)
(* links left/right/middle being indices into it and 0 standing for None.  *)
(***************************************************************************)
EXTENDS Integers, Sequences, FiniteSets, TLC

VARIABLES nodes, inserted, loaded, ret

vars == <<nodes, inserted, loaded, ret>>

(***************************************************************************)
(* Bounds of the model.                                                    *)
(***************************************************************************)
MaxInserts == 2

(***************************************************************************)
(* Character codes.                                                        *)
(***************************************************************************)
Underscore == 95
Comma == 44
Space == 32
Colon == 58
Minus == 45
Plus == 43
Digit0 == 48

\* the letters the inserted words and the queries are made of
Letter == [a |-> 97, b |-> 98, x |-> 120]
ChA == Letter.a
ChB == Letter.b
ChX == Letter.x

None == 0
Root == 1

\* the data of a node built with Node(): Python's None
NoData == <<>>

\* the capacity of a completions list
MaxCompletions == 10

(***************************************************************************)
(* Python's ordering of strings and of (score, word) tuples.               *)
(***************************************************************************)
RECURSIVE StrLess(_, _)
StrLess(s, t) ==
    IF t = <<>> THEN FALSE
    ELSE IF s = <<>> THEN TRUE
    ELSE IF Head(s) # Head(t) THEN Head(s) < Head(t)
    ELSE StrLess(Tail(s), Tail(t))

PairLess(x, y) ==
    \/ x[1] < y[1]
    \/ x[1] = y[1] /\ StrLess(x[2], y[2])

(***************************************************************************)
(* heapq, on a Python list held as a sequence: position p of the list is   *)
(* element p + 1 of the sequence.                                          *)
(***************************************************************************)
RECURSIVE SiftDownLoop(_, _, _, _)
SiftDownLoop(heap, startpos, pos, newitem) ==
    IF pos > startpos
    THEN LET parentpos == (pos - 1) \div 2
             parent == heap[parentpos + 1]
         IN  IF PairLess(newitem, parent)
             THEN SiftDownLoop([heap EXCEPT ![pos + 1] = parent],
                               startpos, parentpos, newitem)
             ELSE [heap EXCEPT ![pos + 1] = newitem]
    ELSE [heap EXCEPT ![pos + 1] = newitem]

siftdown(heap, startpos, pos) == SiftDownLoop(heap, startpos, pos, heap[pos + 1])

RECURSIVE SiftUpLoop(_, _, _, _)
SiftUpLoop(heap, startpos, pos, newitem) ==
    LET endpos == Len(heap)
        childpos == 2 * pos + 1
    IN  IF childpos < endpos
        THEN LET rightpos == childpos + 1
                 c == IF rightpos < endpos
                         /\ ~PairLess(heap[childpos + 1], heap[rightpos + 1])
                      THEN rightpos
                      ELSE childpos
             IN  SiftUpLoop([heap EXCEPT ![pos + 1] = heap[c + 1]],
                            startpos, c, newitem)
        ELSE siftdown([heap EXCEPT ![pos + 1] = newitem], startpos, pos)

siftup(heap, pos) == SiftUpLoop(heap, pos, pos, heap[pos + 1])

heappush(heap, item) == siftdown(Append(heap, item), 0, Len(heap))

\* the list after heappop (the popped item is discarded by the caller)
heappop(heap) ==
    LET lastelt == heap[Len(heap)]
        rest == SubSeq(heap, 1, Len(heap) - 1)
    IN  IF rest # <<>>
        THEN siftup([rest EXCEPT ![1] = lastelt], 0)
        ELSE rest

\* Node.add_completion, on the node's completions list
add_completion(completions, word, score) ==
    LET pushed == heappush(completions, <<score, word>>)
    IN  IF Len(pushed) > MaxCompletions THEN heappop(pushed) ELSE pushed

(***************************************************************************)
(* list.sort(reverse = True) on (score, word) tuples.                      *)
(***************************************************************************)
RECURSIVE InsertDesc(_, _)
InsertDesc(x, sorted) ==
    IF sorted = <<>> THEN <<x>>
    ELSE IF PairLess(Head(sorted), x) THEN <<x>> \o sorted
    ELSE <<Head(sorted)>> \o InsertDesc(x, Tail(sorted))

RECURSIVE InsertAsc(_, _)
InsertAsc(x, sorted) ==
    IF sorted = <<>> THEN <<x>>
    ELSE IF PairLess(x, Head(sorted)) THEN <<x>> \o sorted
    ELSE <<Head(sorted)>> \o InsertAsc(x, Tail(sorted))

RECURSIVE SortAscending(_)
SortAscending(list) ==
    IF list = <<>> THEN <<>>
    ELSE InsertAsc(Head(list), SortAscending(Tail(list)))

RECURSIVE SortReverse(_)
SortReverse(list) ==
    IF list = <<>> THEN <<>>
    ELSE InsertDesc(Head(list), SortReverse(Tail(list)))

(***************************************************************************)
(* Nodes and the structural operations of the tree.                        *)
(***************************************************************************)
Node(data) ==
    [data |-> data, is_word |-> FALSE, score |-> 0, completions |-> <<>>,
     left |-> None, right |-> None, middle |-> None]

\* insert_node(root, node): the arena after the insertion and the returned root
RECURSIVE insert_node(_, _, _)
insert_node(ns, root, node) ==
    IF root = None THEN [ns |-> ns, root |-> node]
    ELSE IF StrLess(ns[root].data, ns[node].data)
    THEN LET sub == insert_node(ns, ns[root].right, node)
         IN  [ns |-> [sub.ns EXCEPT ![root].right = sub.root], root |-> root]
    ELSE IF StrLess(ns[node].data, ns[root].data)
    THEN LET sub == insert_node(ns, ns[root].left, node)
         IN  [ns |-> [sub.ns EXCEPT ![root].left = sub.root], root |-> root]
    ELSE LET sub == insert_node(ns, ns[root].middle, node)
         IN  [ns |-> [sub.ns EXCEPT ![root].middle = sub.root], root |-> root]

RECURSIVE search_char(_, _, _)
search_char(ns, root, char) ==
    IF root = None THEN None
    ELSE IF ns[root].data = char THEN root
    ELSE IF StrLess(ns[root].data, char) THEN search_char(ns, ns[root].right, char)
    ELSE search_char(ns, ns[root].left, char)

\* Node(c) linked below ptr: ptr.middle = insert_node(ptr.middle, node)
CreateChild(ns, ptr, c) ==
    LET new == Len(ns) + 1
        ins == insert_node(Append(ns, Node(c)), ns[ptr].middle, new)
    IN  [ns |-> [ins.ns EXCEPT ![ptr].middle = ins.root], node |-> new]

RECURSIVE CompletionLoop(_, _, _, _, _)
CompletionLoop(ns, ptr, prefix, word, score) ==
    IF prefix = <<>> THEN ns
    ELSE LET c == <<Head(prefix)>>
             node == search_char(ns, ns[ptr].middle, c)
         IN  IF node # None
             THEN CompletionLoop(
                      [ns EXCEPT ![node].completions = add_completion(@, word, score)],
                      node, Tail(prefix), word, score)
             ELSE LET made == CreateChild(ns, ptr, c)
                  IN  CompletionLoop(
                          [made.ns EXCEPT ![made.node].completions =
                                              add_completion(@, word, score)],
                          made.node, Tail(prefix), word, score)

insert_completion(ns, prefix, word, score) ==
    CompletionLoop(ns, Root, prefix, word, score)

SuffixAt(word, i) == SubSeq(word, i + 1, Len(word))

\* word[i+1:] for the 0-based position i of a delimiter
SuffixAfter(word, i) == SubSeq(word, i + 2, Len(word))

\* the loop of insert over enumerate(word), from 0-based position i
RECURSIVE InsertLoop(_, _, _, _, _)
InsertLoop(ns, ptr, word, i, score) ==
    IF i >= Len(word) THEN [ns |-> ns, ptr |-> ptr]
    ELSE LET c == <<word[i + 1]>>
             reg == IF c = <<Underscore>>
                    THEN insert_completion(ns, SuffixAfter(word, i), word, score)
                    ELSE ns
             node == search_char(reg, reg[ptr].middle, c)
         IN  IF node # None
             THEN InsertLoop(reg, node, word, i + 1, score)
             ELSE LET made == CreateChild(reg, ptr, c)
                  IN  InsertLoop(made.ns, made.node, word, i + 1, score)

insert_unmarked(ns, word, score) ==
    LET first == [ns EXCEPT ![Root].completions = add_completion(@, word, score)]
        full == insert_completion(first, word, word, score)
        walk == InsertLoop(full, Root, word, 0, score)
    IN  [walk.ns EXCEPT ![walk.ptr].score = score]

insert(ns, word, score) ==
    LET first == [ns EXCEPT ![Root].completions = add_completion(@, word, score)]
        full == insert_completion(first, word, word, score)
        walk == InsertLoop(full, Root, word, 0, score)
    IN  [walk.ns EXCEPT ![walk.ptr].is_word = TRUE, ![walk.ptr].score = score]

RECURSIVE SearchLoop(_, _, _)
SearchLoop(ns, ptr, word) ==
    IF word = <<>> THEN ptr
    ELSE LET next == search_char(ns, ns[ptr].middle, <<Head(word)>>)
         IN  IF next = None THEN None ELSE SearchLoop(ns, next, Tail(word))

RECURSIVE SearchLastMatch(_, _, _)
SearchLastMatch(ns, ptr, word) ==
    IF word = <<>> THEN ptr
    ELSE LET next == search_char(ns, ns[ptr].middle, <<Head(word)>>)
         IN  IF next = None THEN ptr ELSE SearchLastMatch(ns, next, Tail(word))

search_partial(ns, word) == SearchLastMatch(ns, Root, word)

search(ns, word) == SearchLoop(ns, Root, word)

Words(list) == [k \in 1..Len(list) |-> list[k][2]]

\* get_completions: the arena after the call and the returned list of words
get_completions(ns, prefix) ==
    LET pre == search(ns, prefix)
    IN  IF pre = None
        THEN [ns |-> ns, val |-> <<>>]
        ELSE LET sorted == SortReverse(ns[pre].completions)
             IN  [ns |-> [ns EXCEPT ![pre].completions = sorted],
                  val |-> Words(sorted)]

(***************************************************************************)
(* Text: str(), int(), str.join, str.split.                                *)
(***************************************************************************)
StrTrue == <<84, 114, 117, 101>>
StrFalse == <<70, 97, 108, 115, 101>>

str_bool(b) == IF b THEN StrTrue ELSE StrFalse

RECURSIVE NatToStr(_)
NatToStr(n) ==
    IF n < 10 THEN <<Digit0 + n>>
    ELSE NatToStr(n \div 10) \o <<Digit0 + (n % 10)>>

str_int(n) == IF n < 0 THEN <<Minus>> \o NatToStr(0 - n) ELSE NatToStr(n)

IsDigit(c) == c \in Digit0..(Digit0 + 9)

\* the strings int() accepts: an optional sign, then digits that single
\* underscores may separate
IsIntLiteral(s) ==
    LET body == IF s # <<>> /\ Head(s) \in {Minus, Plus} THEN Tail(s) ELSE s
    IN  /\ body # <<>>
        /\ IsDigit(body[1])
        /\ IsDigit(body[Len(body)])
        /\ \A k \in 1..Len(body) :
              \/ IsDigit(body[k])
              \/ body[k] = Underscore /\ IsDigit(body[k - 1])

RECURSIVE DigitsValue(_, _)
DigitsValue(body, acc) ==
    IF body = <<>> THEN acc
    ELSE IF Head(body) = Underscore THEN DigitsValue(Tail(body), acc)
    ELSE DigitsValue(Tail(body), 10 * acc + (Head(body) - Digit0))

int(s) ==
    IF Head(s) = Minus THEN 0 - DigitsValue(Tail(s), 0)
    ELSE IF Head(s) = Plus THEN DigitsValue(Tail(s), 0)
    ELSE DigitsValue(s, 0)

\* sep.join(parts)
RECURSIVE join(_, _)
join(sep, parts) ==
    IF parts = <<>> THEN <<>>
    ELSE IF Len(parts) = 1 THEN parts[1]
    ELSE parts[1] \o sep \o join(sep, Tail(parts))

\* a set of positions as an increasing sequence
RECURSIVE Increasing(_)
Increasing(positions) ==
    IF positions = {} THEN <<>>
    ELSE LET least == CHOOSE k \in positions : \A m \in positions : k <= m
         IN  <<least>> \o Increasing(positions \ {least})

\* s.split(","): the fields between the separators, empty ones kept
split_sep(s, sep) ==
    LET seps == Increasing({k \in 1..Len(s) : s[k] = sep})
        n == Len(seps)
        bounds == <<0>> \o seps \o <<Len(s) + 1>>
    IN  [j \in 1..(n + 1) |-> SubSeq(s, bounds[j] + 1, bounds[j + 1] - 1)]

Whitespace == {9, 10, 11, 12, 13, Space}

\* s.split(): the runs of non-whitespace characters
split(s) ==
    LET starts == Increasing({k \in 1..Len(s) :
                                 /\ s[k] \notin Whitespace
                                 /\ k = 1 \/ s[k - 1] \in Whitespace})
        stops == Increasing({k \in 1..Len(s) :
                                /\ s[k] \notin Whitespace
                                /\ k = Len(s) \/ s[k + 1] \in Whitespace})
    IN  [j \in 1..Len(starts) |-> SubSeq(s, starts[j], stops[j])]

(***************************************************************************)
(* serialize and deserialize.                                              *)
(***************************************************************************)
PairText(pair) == str_int(pair[1]) \o <<Comma>> \o pair[2]

\* the record of one node
Record(node) ==
    (IF node.data # NoData THEN node.data ELSE <<Colon>>) \o <<Comma>>
    \o str_bool(node.is_word) \o <<Comma>>
    \o str_int(node.score) \o <<Comma>>
    \o join(<<Comma>>, [k \in 1..Len(node.completions) |->
                           PairText(node.completions[k])])

\* the list "encoding" filled by encode(node)
RECURSIVE encode(_, _)
encode(ns, node) ==
    IF node = None THEN << <<Colon>> >>
    ELSE <<Record(ns[node])>>
         \o encode(ns, ns[node].left)
         \o encode(ns, ns[node].middle)
         \o encode(ns, ns[node].right)

serialize(ns) == join(<<Space>>, encode(ns, Root))

DecodeError == [ok |-> FALSE, pos |-> 0, ns |-> <<>>, node |-> None]

\* the while loop of decode over the fields from 0-based position i
RECURSIVE DecodeCompletions(_, _, _)
DecodeCompletions(fields, i, acc) ==
    IF i >= Len(fields) THEN [ok |-> TRUE, list |-> acc]
    ELSE IF ~IsIntLiteral(fields[i + 1]) THEN [ok |-> FALSE, list |-> acc]
    ELSE IF i + 1 >= Len(fields) THEN [ok |-> FALSE, list |-> acc]
    ELSE DecodeCompletions(fields, i + 2,
                           Append(acc, <<int(fields[i + 1]), fields[i + 2]>>))

\* decode(encoding_iter): tokens is the token list, pos the 1-based position
\* of the iterator, ns the nodes built so far
RECURSIVE decode(_, _, _)
decode(tokens, pos, ns) ==
    IF pos > Len(tokens) THEN DecodeError
    ELSE IF tokens[pos] = <<Colon>>
    THEN [ok |-> TRUE, pos |-> pos + 1, ns |-> ns, node |-> None]
    ELSE LET encoded_node == split_sep(tokens[pos], Comma)
         IN  IF Len(encoded_node) < 3 THEN DecodeError
             ELSE IF ~IsIntLiteral(encoded_node[3]) THEN DecodeError
             ELSE
             LET data == encoded_node[1]
                 comps == DecodeCompletions(encoded_node, 3, <<>>)
                 id == Len(ns) + 1
                 node == [Node(IF data = <<Colon>> THEN NoData ELSE data)
                             EXCEPT !.is_word = (encoded_node[2] = str_bool(TRUE)),
                                    !.score = int(encoded_node[3]),
                                    !.completions = comps.list]
             IN  IF ~comps.ok THEN DecodeError
                 ELSE
                 LET l == decode(tokens, pos + 1, Append(ns, node))
                 IN  IF ~l.ok THEN DecodeError
                     ELSE
                     LET m == decode(tokens, l.pos, l.ns)
                     IN  IF ~m.ok THEN DecodeError
                         ELSE
                         LET r == decode(tokens, m.pos, m.ns)
                         IN  IF ~r.ok THEN DecodeError
                             ELSE [ok |-> TRUE, pos |-> r.pos,
                                   ns |-> [r.ns EXCEPT ![id].left = l.node,
                                                       ![id].middle = m.node,
                                                       ![id].right = r.node],
                                   node |-> id]

\* self.root = decode(...): the assignment is not reached when decode raises
AssignRootEarly(ns, res) ==
    IF res.ok THEN res.ns ELSE <<Node(NoData)>>

AssignRoot(ns, res) ==
    IF res.ok THEN res.ns ELSE ns

\* deserialize: the arena after the call, and whether the call raised
deserialize(ns, encoding) ==
    LET res == decode(split(encoding), 1, <<>>)
    IN  [ns |-> AssignRoot(ns, res), raised |-> ~res.ok]

(***************************************************************************)
(* The calls made on one QueryServer.  "inserted" is the history of the    *)
(* (word, score) pairs inserted, "loaded" the position of the loop of      *)
(* build_from_tuples in LoadPairs, "ret" the last call and what it         *)
(* returned.                                                               *)
(***************************************************************************)
Scores == {1, 2}

Terms ==
    { <<>>, <<ChA, Underscore, ChA>>, <<ChB, Underscore, ChA>> }

Queries ==
    { <<>>, <<ChA>>, <<Underscore>>, <<ChA, Underscore, ChB>> }

\* ten pairs with distinct words, for load_QueryServer(pairs)
LoadPairs ==
    << <<<<ChA, ChA>>, 1>>, <<<<ChB>>, 2>>, <<<<Underscore>>, 1>>,
       <<<<ChA, ChB>>, 2>>, <<<<ChB, ChB>>, 1>>, <<<<Underscore, ChA>>, 2>>,
       <<<<ChB, Underscore>>, 1>>, <<<<ChA, Underscore>>, 2>>,
       <<<<ChB, ChA>>, 1>>, <<<<Underscore, ChB>>, 2>> >>

Call(op, arg, score, val, node, raised, kind) ==
    [op |-> op, arg |-> arg, score |-> score, val |-> val, node |-> node,
     raised |-> raised, kind |-> kind]

Init ==
    /\ nodes = <<Node(NoData)>>
    /\ inserted = <<>>
    /\ loaded = 0
    /\ ret = Call("init", <<>>, 0, <<>>, None, FALSE, "")

\* no build_from_tuples is under way
Idle == loaded \in {0, Len(LoadPairs)}

\* one iteration of the loop of build_from_tuples(LoadPairs), which
\* load_QueryServer runs on a new QueryServer
LoadStep ==
    /\ loaded < Len(LoadPairs)
    /\ Len(inserted) = loaded
    /\ LET pair == LoadPairs[loaded + 1]
       IN  /\ nodes' = insert(nodes, pair[1], pair[2])
           /\ inserted' = Append(inserted, pair)
           /\ ret' = Call("load", pair[1], pair[2], <<>>, None, FALSE, "")
    /\ loaded' = loaded + 1

Insert(word, score) ==
    /\ Idle
    /\ Len(inserted) - loaded < MaxInserts
    /\ nodes' = insert(nodes, word, score)
    /\ inserted' = Append(inserted, <<word, score>>)
    /\ ret' = Call("insert", word, score, <<>>, None, FALSE, "")
    /\ UNCHANGED loaded

Search(word) ==
    /\ Idle
    /\ ret' = Call("search", word, 0, <<>>, search(nodes, word), FALSE, "")
    /\ UNCHANGED <<nodes, inserted, loaded>>

GetCompletions(prefix) ==
    /\ Idle
    /\ LET res == get_completions(nodes, prefix)
       IN  /\ nodes' = res.ns
           /\ ret' = Call("get_completions", prefix, 0, res.val,
                          search(nodes, prefix), FALSE, "")
    /\ UNCHANGED <<inserted, loaded>>

Next ==
    \/ LoadStep
    \/ \E word \in Terms, score \in Scores : Insert(word, score)
    \/ \E word \in Queries : Search(word)
    \/ \E prefix \in Queries : GetCompletions(prefix)

Spec == Init /\ [][Next]_vars

(***************************************************************************)
(* Eleven distinct words that share a prefix, inserted in this order with  *)
(* eleven distinct scores: each insert takes the lowest or the highest     *)
(* score not yet used.                                                     *)
(***************************************************************************)
SharedTerms ==
    << <<ChA>>, <<ChA, ChB>>, <<ChA, Underscore, ChA>>, <<ChA, ChA>>,
       <<ChA, Underscore>>, <<ChA, ChB, ChA>>, <<ChA, ChA, ChB>>,
       <<ChA, Underscore, ChB>>, <<ChA, ChB, ChB>>, <<ChA, ChA, ChA>>,
       <<ChA, ChA, Underscore>> >>

UnusedScores ==
    (1..Len(SharedTerms)) \ {inserted[k][2] : k \in 1..Len(inserted)}

InsertShared(score) ==
    /\ Len(inserted) < Len(SharedTerms)
    /\ \/ \A other \in UnusedScores : score <= other
       \/ \A other \in UnusedScores : score >= other
    /\ LET word == SharedTerms[Len(inserted) + 1]
       IN  /\ nodes' = insert(nodes, word, score)
           /\ inserted' = Append(inserted, <<word, score>>)
           /\ ret' = Call("insert", word, score, <<>>, None, FALSE, "")
    /\ UNCHANGED loaded

NextBounding == \E score \in UnusedScores : InsertShared(score)

SpecBounding == Init /\ [][NextBounding]_vars

(***************************************************************************)
(* deserialize, called with the index's own serialization or with a        *)
(* damaged copy of it.                                                     *)
(***************************************************************************)
Tokens == encode(nodes, Root)

RecordPositions == {i \in 1..Len(Tokens) : Tokens[i] # <<Colon>>}

Fields(i) == split_sep(Tokens[i], Comma)

WithToken(i, token) == join(<<Space>>, [Tokens EXCEPT ![i] = token])

\* the positions of the record's fields that decode passes to int()
IntFields(i) ==
    {3} \cup {f \in 4..(Len(Fields(i)) - 1) : (f - 4) % 2 = 0}

Encodings ==
    {[kind |-> "valid", text |-> serialize(nodes)]}
    \cup {[kind |-> "truncated", text |-> join(<<Space>>, SubSeq(Tokens, 1, k))] :
             k \in 0..(Len(Tokens) - 1)}
    \cup {[kind |-> "field_count",
           text |-> WithToken(i, join(<<Comma>>,
                                      SubSeq(Fields(i), 1, Len(Fields(i)) - 1)))] :
             i \in {r \in RecordPositions : Len(Fields(r)) >= 5}}
    \cup {[kind |-> "field_count",
           text |-> WithToken(i, join(<<Comma>>, SubSeq(Fields(i), 1, 2)))] :
             i \in RecordPositions}
    \cup UNION {{[kind |-> "bad_int",
                  text |-> WithToken(i, join(<<Comma>>,
                                             [Fields(i) EXCEPT ![f] = <<ChX>>]))] :
                    f \in IntFields(i)} : i \in RecordPositions}

Deserialize(input) ==
    LET res == deserialize(nodes, input.text)
    IN  /\ Idle
        /\ nodes' = res.ns
        /\ ret' = Call("deserialize", <<>>, 0, <<>>, None, res.raised, input.kind)
        /\ UNCHANGED <<inserted, loaded>>

NextSerial ==
    \/ \E word \in Terms, score \in Scores : Insert(word, score)
    \/ \E input \in Encodings : Deserialize(input)

SpecSerial == Init /\ [][NextSerial]_vars

(***************************************************************************)
(* What the history of inserts says a prefix should complete to.           *)
(***************************************************************************)
IsPrefix(p, t) == Len(p) <= Len(t) /\ SubSeq(t, 1, Len(p)) = p

\* the suffixes of t that begin right after an occurrence of the delimiter
PostDelimiterSuffixes(t) ==
    {SubSeq(t, k + 1, Len(t)) : k \in {j \in 1..Len(t) : t[j] = Underscore}}

Matches(p, t) ==
    \/ IsPrefix(p, t)
    \/ \E suffix \in PostDelimiterSuffixes(t) : IsPrefix(p, suffix)

InsertedTerms == {inserted[k][1] : k \in 1..Len(inserted)}

DistinctTerms ==
    \A i, j \in 1..Len(inserted) : inserted[i][1] = inserted[j][1] => i = j

DistinctScores ==
    \A i, j \in 1..Len(inserted) : inserted[i][2] = inserted[j][2] => i = j

\* the (score, word) entries of the inserted pairs whose word p matches
Candidates(p) ==
    LET hits == SelectSeq(inserted, LAMBDA pair : Matches(p, pair[1]))
    IN  [k \in 1..Len(hits) |-> <<hits[k][2], hits[k][1]>>]

Min(x, y) == IF x <= y THEN x ELSE y

\* the K highest entries of a list, highest first
Highest(list, K) == SubSeq(SortReverse(list), 1, K)

\* every prefix of an inserted word or of one of its post-delimiter suffixes
IndexedPrefixes ==
    UNION { {SubSeq(u, 1, n) : n \in 0..Len(u)} :
            u \in UNION {{t} \cup PostDelimiterSuffixes(t) : t \in InsertedTerms} }

Occurrences(list, x) == Cardinality({k \in 1..Len(list) : list[k] = x})

\* list holds its entries highest first: by score, then by word
Descending(list) ==
    \A k \in 1..(Len(list) - 1) :
        \/ list[k][1] > list[k + 1][1]
        \/ /\ list[k][1] = list[k + 1][1]
           /\ ~StrLess(list[k][2], list[k + 1][2])

\* C2: every node's completions list has at most 10 entries and holds
\* exactly the K highest (score, word) entries among the inserted terms that
\* its prefix matches, K being the smaller of 10 and the number of such terms.
C2_TopK ==
    \A p \in IndexedPrefixes \cup {<<>>} :
        LET n == search(nodes, p)
            want == Candidates(p)
        IN  /\ n # None
            /\ Len(nodes[n].completions) <= MaxCompletions
            /\ SortReverse(nodes[n].completions)
                  = Highest(want, Min(MaxCompletions, Len(want)))

\* C3: after at most 10 inserts of distinct terms, get_completions(p) is the
\* list of the inserted terms p matches, each once, by descending (score, term).
C3_CompoundLookup ==
    (ret.op = "get_completions" /\ Len(inserted) <= MaxCompletions /\ DistinctTerms)
        => ret.val = Words(SortReverse(Candidates(ret.arg)))

\* C4: get_completions(p) returns only inserted terms that start with p or
\* that contain p right after an occurrence of the delimiter.
C4_Soundness ==
    ret.op = "get_completions"
        => \A k \in 1..Len(ret.val) :
              ret.val[k] \in InsertedTerms /\ Matches(ret.arg, ret.val[k])

C4_Witness ==
    /\ ret.op = "get_completions"
    /\ ret.arg # <<>>
    /\ \E k \in 1..Len(ret.val) : ~IsPrefix(ret.arg, ret.val[k])
    /\ \E k \in 1..Len(ret.val) : IsPrefix(ret.arg, ret.val[k])

\* C7: the list get_completions returns has at most 10 elements and is in
\* descending order of score, equal scores in descending order of the term.
C7_Ordering ==
    (ret.op = "get_completions" /\ ret.node # None)
        => /\ Len(ret.val) <= MaxCompletions
           /\ ret.val = Words(nodes[ret.node].completions)
           /\ Descending(nodes[ret.node].completions)

C7_Witness ==
    /\ ret.op = "get_completions"
    /\ ret.node # None
    /\ Len(inserted) > MaxCompletions
    /\ Len(ret.val) = MaxCompletions
    /\ \E k \in 1..(Len(ret.val) - 1) :
          LET list == nodes[ret.node].completions
          IN  list[k][1] = list[k + 1][1] /\ list[k][2] # list[k + 1][2]

\* C8 as stated: search(p) is None and get_completions(p) is empty for every
\* string p that no inserted term and no post-delimiter suffix starts with.
C8_NotFoundAnyString ==
    (ret.op \in {"search", "get_completions"}
        /\ ~\E t \in InsertedTerms : Matches(ret.arg, t))
        => ret.node = None /\ ret.val = <<>>

\* C8 amended: for every non-empty string p that no inserted term and no
\* post-delimiter suffix starts with, search(p) is None, get_completions(p)
\* is empty, nothing is raised and the tree is left as it was; on an index
\* with no terms the empty string finds the root, whose completions are empty.
C8_NotFound ==
    [][ (ret'.op \in {"search", "get_completions"}
            /\ ~\E t \in InsertedTerms' : Matches(ret'.arg, t))
          => /\ ret'.val = <<>>
             /\ ~ret'.raised
             /\ nodes' = nodes
             /\ ret'.node = (IF ret'.arg = <<>> THEN Root ELSE None) ]_vars

C8_Witness ==
    /\ ret.op = "search"
    /\ ret.node = None
    /\ Len(ret.arg) > 1
    /\ \E t \in InsertedTerms : IsPrefix(SubSeq(ret.arg, 1, Len(ret.arg) - 1), t)
    /\ ~\E t \in InsertedTerms : Matches(ret.arg, t)

\* C9: get_completions leaves the index as it was, the order of every
\* completions list included, so that serialize() returns the same string.
C9_QueryReadOnly ==
    [][ ret'.op = "get_completions"
          => nodes' = nodes /\ serialize(nodes') = serialize(nodes) ]_vars

\* the root's completions after an insert of (score, word): the old entries
\* and the new one, less what the bound of 10 entries evicted
GainsEntry(old, new, entry) ==
    /\ Len(new) = Min(MaxCompletions, Len(old) + 1)
    /\ \A k \in 1..Len(new) :
          Occurrences(new, new[k])
              <= Occurrences(old, new[k]) + (IF new[k] = entry THEN 1 ELSE 0)

OthersUntouched ==
    /\ Len(nodes') = Len(nodes)
    /\ \A n \in 2..Len(nodes) : nodes'[n] = nodes[n]
    /\ nodes'[Root].data = nodes[Root].data
    /\ nodes'[Root].left = nodes[Root].left
    /\ nodes'[Root].middle = nodes[Root].middle
    /\ nodes'[Root].right = nodes[Root].right

\* C10 as stated: insert("", score) changes only the root's completions list;
\* the root's is_word and score and every other node stay as they were.
C10_EmptyInsertOnlyCompletions ==
    [][ (ret'.op = "insert" /\ ret'.arg = <<>> /\ inserted' # inserted)
          => /\ OthersUntouched
             /\ GainsEntry(nodes[Root].completions, nodes'[Root].completions,
                           <<ret'.score, <<>>>>)
             /\ nodes'[Root].is_word = nodes[Root].is_word
             /\ nodes'[Root].score = nodes[Root].score ]_vars

\* C10 amended: insert("", score) changes only the root node: its completions
\* list gains (score, "") within the bound of 10 entries, its is_word becomes
\* True and its score becomes the inserted score; no node is created and every
\* other node and the root's links stay as they were.
C10_EmptyInsert ==
    [][ (ret'.op = "insert" /\ ret'.arg = <<>> /\ inserted' # inserted)
          => /\ OthersUntouched
             /\ GainsEntry(nodes[Root].completions, nodes'[Root].completions,
                           <<ret'.score, <<>>>>)
             /\ nodes'[Root].is_word
             /\ nodes'[Root].score = ret'.score ]_vars

C10_Witness ==
    /\ ret.op = "insert"
    /\ ret.arg = <<>>
    /\ Len(inserted) > MaxCompletions
    /\ Len(nodes[Root].completions) = MaxCompletions
    /\ nodes[Root].is_word
    /\ Len(nodes) > 1

\* C1: the serialization of an index built by inserts deserializes into a
\* fresh index without error, and that index serializes to the same string.
C1_RoundTrip ==
    LET encoding == serialize(nodes)
        copy == deserialize(<<Node(NoData)>>, encoding)
    IN  ~copy.raised /\ serialize(copy.ns) = encoding

\* C5: deserialize of a truncated encoding, of one with a record of a wrong
\* field count or of one with an unparsable integer, on an index that has
\* contents, raises and leaves every node of the index as it was.
C5_MalformedDecode ==
    [][ (ret'.op = "deserialize" /\ ret'.kind # "valid" /\ inserted # <<>>)
          => ret'.raised /\ nodes' = nodes ]_vars

C5_Witness ==
    /\ ret.op = "deserialize"
    /\ ret.kind = "field_count"
    /\ ret.raised
    /\ Len(nodes) > 3
    /\ \E n \in 1..Len(nodes) : nodes[n].is_word

\* the prefixes every inserted word starts with
CommonPrefixes == {p \in IndexedPrefixes : \A t \in InsertedTerms : IsPrefix(p, t)}

LowestScore == CHOOSE s \in {inserted[k][2] : k \in 1..Len(inserted)} :
                  \A k \in 1..Len(inserted) : s <= inserted[k][2]

\* C6: after 11 inserts of distinct words that share a prefix p, with 11
\* distinct scores and no query in between, the node of p holds exactly 10
\* entries: every inserted pair but the one of the lowest score.
C6_Bounding ==
    (Len(inserted) = MaxCompletions + 1 /\ DistinctTerms /\ DistinctScores)
        => \A p \in CommonPrefixes :
              LET n == search(nodes, p)
              IN  /\ n # None
                  /\ Len(nodes[n].completions) = MaxCompletions
                  /\ {nodes[n].completions[k] : k \in 1..MaxCompletions}
                        = {<<inserted[k][2], inserted[k][1]>> :
                              k \in {j \in 1..Len(inserted) :
                                        inserted[j][2] # LowestScore}}

====
